---------------------------- MODULE Spec2Model ----------------------------
(***************************************************************************)
(* Model of the MySQL tool server's database-isolation layer:              *)
(*   src/mysql-mcp-server-sse/src/security/database_scope_checker.py       *)
(*   src/mysql-mcp-server-sse/src/tools/mysql_tool.py                      *)
(*   src/mysql-mcp-server-sse/src/tools/mysql_info_tool.py                 *)
(*                                                                         *)
(* SQL text is a sequence of one-character strings, so that the regular    *)
(* expressions of the checker are modelled by what they do on characters   *)
(* (word boundaries, whitespace runs, case folding).                       *)
(***************************************************************************)
EXTENDS Integers, Sequences, FiniteSets, TLC

VARIABLES
    database_checker,   \* <<>> (None) or <<checker>>: the DatabaseScopeChecker in use
    hash_seed,          \* the process's string-hash seed (decides set iteration order)
    pc,                 \* position of the current call
    op,                 \* the operation being executed
    query,              \* the statement of the call
    is_allowed,         \* check_query's first result
    violations,         \* check_query's second result
    connection,         \* "none" | "held": the pooled connection of the call
    acquired,           \* the call has acquired a connection
    executed,           \* the call has executed a statement
    error,              \* <<>> or <<kind, message>>: the exception the call raised
    exit_path,          \* how the call left the async with: "none" while it has not
    config,             \* the arguments create_database_checker is called with
    env_type,           \* sql_analyzer.env_type
    allow_sensitive_info, \* the environment variable ALLOW_SENSITIVE_INFO (None: not set)
    permitted,          \* the result of check_environment_permission
    heap,               \* the dict objects: heap[r] is the content of the row with reference r
    results,            \* filter_sensitive_info's argument: a list of row references
    filter_patterns,    \* the patterns filter_sensitive_info works with
    filtered_results,   \* the list filter_sensitive_info builds and returns
    original,           \* the contents of the argument's rows when the call started
    passes,             \* the number of calls of filter_sensitive_info made on the rows
    state,              \* the AgentState of the agent graph's run: the keys it has, with their values
    node,               \* the node of the agent graph that runs next
    previous            \* the node of the agent graph that ran last

info_vars == <<env_type, allow_sensitive_info, permitted>>

filter_vars == <<heap, results, filter_patterns, filtered_results, original, passes>>

agent_vars == <<state, node, previous>>

vars == <<database_checker, hash_seed, pc, op, query, is_allowed,
          violations, connection, acquired, executed, error, exit_path, config,
          info_vars, filter_vars, agent_vars>>

---------------------------------------------------------------------------
(* Characters and the str methods the checker uses.                        *)

LowerLetters == <<"a", "b", "c", "d", "e", "f", "g", "h", "i", "j", "k", "l", "m",
                  "n", "o", "p", "q", "r", "s", "t", "u", "v", "w", "x", "y", "z">>

UpperLetters == <<"A", "B", "C", "D", "E", "F", "G", "H", "I", "J", "K", "L", "M",
                  "N", "O", "P", "Q", "R", "S", "T", "U", "V", "W", "X", "Y", "Z">>

Range(f) == {f[i] : i \in DOMAIN f}

Letters == Range(LowerLetters) \cup Range(UpperLetters)

Digits == {"0", "1", "2", "3", "4", "5", "6", "7", "8", "9"}

\* \s of the re module, restricted to the characters of the model
Whitespace == {" ", "\t", "\n"}

Punctuation == {".", "*", "(", ")", ",", ";", "=", ":"}

\* \w : [a-zA-Z0-9_]
WordChars == Letters \cup Digits \cup {"_"}

\* [a-zA-Z_]
IdentStart == Letters \cup {"_"}

Chars == WordChars \cup Whitespace \cup Punctuation

IndexOf(c, seq) == CHOOSE i \in DOMAIN seq : seq[i] = c

UpperOf == [c \in Chars |-> IF c \in Range(LowerLetters)
                            THEN UpperLetters[IndexOf(c, LowerLetters)] ELSE c]

LowerOf == [c \in Chars |-> IF c \in Range(UpperLetters)
                            THEN LowerLetters[IndexOf(c, UpperLetters)] ELSE c]

\* The position of a character in the code-point order (ASCII)
AsciiOrder == <<"\t", "\n", " ", "(", ")", "*", ",", ".",
                "0", "1", "2", "3", "4", "5", "6", "7", "8", "9", ":", ";", "=">>
              \o UpperLetters \o <<"_">> \o LowerLetters

ord(c) == IndexOf(c, AsciiOrder)

\* str.upper()
upper(s) == [i \in 1..Len(s) |-> UpperOf[s[i]]]

\* str.lower()
lower(s) == [i \in 1..Len(s) |-> LowerOf[s[i]]]

RECURSIVE SpanBack(_, _)
\* the position before the run of whitespace that ends at i
SpanBack(s, i) == IF i >= 1 /\ s[i] \in Whitespace THEN SpanBack(s, i - 1) ELSE i

RECURSIVE SpanForward(_, _)
\* the position after the run of whitespace that starts at i
SpanForward(s, i) ==
    IF i <= Len(s) /\ s[i] \in Whitespace THEN SpanForward(s, i + 1) ELSE i

\* str.strip(): leading and trailing whitespace removed
strip(s) == SubSeq(s, SpanForward(s, 1), SpanBack(s, Len(s)))

---------------------------------------------------------------------------
(* The regular-expression pieces.  A matcher takes the text and the        *)
(* position k where the pattern so far has ended and gives the position    *)
(* after its own match; 0 stands for "no match" and is handed on.          *)

NoMatch == [end |-> 0, group1 |-> <<>>]

\* \b between s[i-1] and s[i]
WordBoundary(s, i) ==
    (i > 1 /\ i - 1 <= Len(s) /\ s[i - 1] \in WordChars)
        # (i >= 1 /\ i <= Len(s) /\ s[i] \in WordChars)

RECURSIVE SpanWhile(_, _, _)
\* the position after the longest run of characters of class cls from i
SpanWhile(s, i, cls) ==
    IF i <= Len(s) /\ s[i] \in cls THEN SpanWhile(s, i + 1, cls) ELSE i

\* \b
MatchBoundary(s, k) == IF k = 0 \/ ~WordBoundary(s, k) THEN 0 ELSE k

\* \s* (greedy; what follows it in the patterns is never whitespace)
MatchSpaces0(s, k) == IF k = 0 THEN 0 ELSE SpanWhile(s, k, Whitespace)

\* \s+
MatchSpaces1(s, k) ==
    IF k = 0 \/ k > Len(s) THEN 0
    ELSE IF s[k] \in Whitespace THEN SpanWhile(s, k, Whitespace) ELSE 0

\* one literal character
MatchChar(s, k, c) ==
    IF k = 0 \/ k > Len(s) THEN 0 ELSE IF s[k] = c THEN k + 1 ELSE 0

\* a character as a pattern compares it: case-folded under re.IGNORECASE
Fold(c, ignorecase) == IF ignorecase THEN UpperOf[c] ELSE c

\* a literal word, character by character
MatchLiteral(s, k, lit, ignorecase) ==
    IF k = 0 \/ k + Len(lit) - 1 > Len(s) THEN 0
    ELSE IF \A j \in 1..Len(lit) :
                Fold(s[k + j - 1], ignorecase) = Fold(lit[j], ignorecase)
         THEN k + Len(lit) ELSE 0

\* [a-zA-Z_][a-zA-Z0-9_]* (greedy; it is followed by \b, \s or \. in the
\* patterns, so only the longest run can match)
MatchIdentifier(s, k) ==
    IF k = 0 \/ k > Len(s) THEN 0
    ELSE IF s[k] \in IdentStart THEN SpanWhile(s, k + 1, WordChars) ELSE 0

\* the match that ends at end, its first group being the identifier at k
Capture(s, k, end) ==
    IF end = 0 THEN NoMatch
    ELSE [end |-> end, group1 |-> SubSeq(s, k, MatchIdentifier(s, k) - 1)]

\* ([a-zA-Z_][a-zA-Z0-9_]*)\s*\.\s*([a-zA-Z_][a-zA-Z0-9_]*)\b  from k
MatchQualified(s, k) ==
    Capture(s, k,
        MatchBoundary(s, MatchIdentifier(s, MatchSpaces0(s,
            MatchChar(s, MatchSpaces0(s, MatchIdentifier(s, k)), ".")))))

\* ([a-zA-Z_][a-zA-Z0-9_]*)\b  from k
MatchName(s, k) == Capture(s, k, MatchBoundary(s, MatchIdentifier(s, k)))

\* \bKEYWORD\s+ from i
MatchKeyword(s, i, kw, ignorecase) ==
    MatchSpaces1(s, MatchLiteral(s, MatchBoundary(s, i), kw, ignorecase))

\* (?:e)? : e where it matched, otherwise nothing consumed
Optional(k, e) == IF e = 0 THEN k ELSE e

KW_SHOW      == <<"S", "H", "O", "W">>
KW_FULL      == <<"F", "U", "L", "L">>
KW_TABLES    == <<"T", "A", "B", "L", "E", "S">>
KW_DATABASES == <<"D", "A", "T", "A", "B", "A", "S", "E", "S">>
KW_USE       == <<"U", "S", "E">>
KW_FROM      == <<"F", "R", "O", "M">>
KW_JOIN      == <<"J", "O", "I", "N">>
KW_INTO      == <<"I", "N", "T", "O">>
KW_UPDATE    == <<"U", "P", "D", "A", "T", "E">>
KW_DELETE    == <<"D", "E", "L", "E", "T", "E">>

\* (?:FULL\s+)?
MatchOptionalFull(s, k) ==
    Optional(k, MatchSpaces1(s, MatchLiteral(s, k, KW_FULL, TRUE)))

\* \bSHOW\s+(?:FULL\s+)?TABLES\s+FROM\s+([a-zA-Z_][a-zA-Z0-9_]*)\b
MatchShowTablesFrom(s, i) ==
    MatchName(s,
        MatchSpaces1(s, MatchLiteral(s,
            MatchSpaces1(s, MatchLiteral(s,
                MatchOptionalFull(s, MatchKeyword(s, i, KW_SHOW, TRUE)),
                KW_TABLES, TRUE)),
            KW_FROM, TRUE)))

\* \bDELETE\s+FROM\s+([a-zA-Z_][a-zA-Z0-9_]*)\s*\.\s*([a-zA-Z_][a-zA-Z0-9_]*)\b
MatchDeleteFrom(s, i) ==
    MatchQualified(s,
        MatchSpaces1(s, MatchLiteral(s, MatchKeyword(s, i, KW_DELETE, TRUE),
                                     KW_FROM, TRUE)))

\* The number of patterns in CROSS_DB_PATTERNS
NumCrossDbPatterns == 8

\* CROSS_DB_PATTERNS[p - 1] matched at position i (re.IGNORECASE)
CROSS_DB_PATTERNS(p, s, i) ==
    CASE p = 1 -> MatchQualified(s, MatchBoundary(s, i))
      [] p = 2 -> MatchShowTablesFrom(s, i)
      [] p = 3 -> MatchName(s, MatchKeyword(s, i, KW_USE, TRUE))
      [] p = 4 -> MatchQualified(s, MatchKeyword(s, i, KW_FROM, TRUE))
      [] p = 5 -> MatchQualified(s, MatchKeyword(s, i, KW_JOIN, TRUE))
      [] p = 6 -> MatchQualified(s, MatchKeyword(s, i, KW_INTO, TRUE))
      [] p = 7 -> MatchQualified(s, MatchKeyword(s, i, KW_UPDATE, TRUE))
      [] p = 8 -> MatchDeleteFrom(s, i)

\* the positions from i on where pattern p matches
MatchStarts(p, s, i) == {j \in i..Len(s) : CROSS_DB_PATTERNS(p, s, j).end # 0}

\* the leftmost of a set of positions
Leftmost(starts) == CHOOSE j \in starts : \A k \in starts : j <= k

RECURSIVE finditer(_, _, _)
RECURSIVE FindFrom(_, _, _)
RECURSIVE TakeMatch(_, _, _)
\* re.finditer: the first groups of the non-overlapping matches of pattern p
\* in s, scanning from i
finditer(p, s, i) == FindFrom(p, s, MatchStarts(p, s, i))

\* the scan stops when no match is left, and takes the leftmost otherwise
FindFrom(p, s, starts) ==
    IF starts = {} THEN {} ELSE TakeMatch(p, s, CROSS_DB_PATTERNS(p, s, Leftmost(starts)))

\* m is the match taken: the scan resumes where it ended
TakeMatch(p, s, m) == {m.group1} \cup finditer(p, s, m.end)

RECURSIVE CollapseSpaces(_, _)
\* re.sub of \s+ by one space, from position i
CollapseSpaces(s, i) ==
    IF i > Len(s) THEN <<>>
    ELSE IF s[i] \in Whitespace
         THEN <<" ">> \o CollapseSpaces(s, SpanWhile(s, i, Whitespace))
         ELSE <<s[i]>> \o CollapseSpaces(s, i + 1)


---------------------------------------------------------------------------
(* DatabaseScopeChecker                                                    *)

\* Python's None
None == <<"None">>

\* DatabaseAccessLevel
STRICT     == "strict"
RESTRICTED == "restricted"
PERMISSIVE == "permissive"

DatabaseAccessLevel == {STRICT, RESTRICTED, PERMISSIVE}

DB_INFORMATION_SCHEMA == <<"i", "n", "f", "o", "r", "m", "a", "t", "i", "o", "n", "_",
                           "s", "c", "h", "e", "m", "a">>
DB_MYSQL              == <<"m", "y", "s", "q", "l">>
DB_PERFORMANCE_SCHEMA == <<"p", "e", "r", "f", "o", "r", "m", "a", "n", "c", "e", "_",
                           "s", "c", "h", "e", "m", "a">>
DB_SYS                == <<"s", "y", "s">>

SYSTEM_DATABASES == {DB_INFORMATION_SCHEMA, DB_MYSQL, DB_PERFORMANCE_SCHEMA, DB_SYS}

\* The violation messages: <<text, database name>>.
\* "不允许访问数据库: {db_name}"
VIOLATION_DATABASE(db_name) == <<"database not allowed: ", db_name>>
\* "严格模式下不允许执行 SHOW DATABASES"
VIOLATION_SHOW_DATABASES == <<"SHOW DATABASES not allowed in strict mode", <<>>>>
\* "不允许使用 USE 语句切换数据库"
VIOLATION_USE == <<"USE statement not allowed", <<>>>>
\* "严格模式下不允许访问系统表"
VIOLATION_SYSTEM_TABLE == <<"system table not allowed in strict mode", <<>>>>

\* bool(x) of an Optional[str]
Truthy(x) == x # None /\ x # <<>>

\* __init__ with is_enabled taken from the level alone
DatabaseScopeChecker_LevelOnly(allowed_database, access_level) ==
    [allowed_database |-> allowed_database,
     access_level     |-> access_level,
     is_enabled       |-> access_level # PERMISSIVE]

\* DatabaseScopeChecker.__init__
DatabaseScopeChecker(allowed_database, access_level) ==
    [allowed_database |-> allowed_database,
     access_level     |-> access_level,
     is_enabled       |-> allowed_database # None /\ access_level # PERMISSIVE]

\* _is_valid_database_name: re.match of ^[a-zA-Z_][a-zA-Z0-9_]*$
is_valid_database_name(name) == MatchIdentifier(name, 1) = Len(name) + 1

\* _extract_databases without the lower() of the group
extract_databases_NoLower(sql_query) ==
    UNION {finditer(p, CollapseSpaces(strip(upper(sql_query)), 1), 1) :
               p \in 1..NumCrossDbPatterns}

\* _extract_databases
extract_databases(sql_query) ==
    LET normalized_sql == CollapseSpaces(strip(upper(sql_query)), 1)
        groups == UNION {finditer(p, normalized_sql, 1) : p \in 1..NumCrossDbPatterns}
    IN  {lower(g) : g \in {h \in groups : is_valid_database_name(lower(h))}}

\* _is_database_allowed with the system databases allowed at every level
is_database_allowed_AnyLevel(self, db_name) ==
    (Truthy(self.allowed_database) /\ lower(db_name) = lower(self.allowed_database))
        \/ lower(db_name) \in SYSTEM_DATABASES

\* _is_database_allowed without the system databases
is_database_allowed_NoSystem(self, db_name) ==
    Truthy(self.allowed_database) /\ lower(db_name) = lower(self.allowed_database)

\* _is_database_allowed
is_database_allowed(self, db_name) ==
    LET db_name_lower == lower(db_name)
    IN  IF Truthy(self.allowed_database)
           /\ db_name_lower = lower(self.allowed_database)
        THEN TRUE
        ELSE IF self.access_level = RESTRICTED /\ db_name_lower \in SYSTEM_DATABASES
        THEN TRUE
        ELSE FALSE

\* re.search of \bSHOW\s+DATABASES\b
SearchShowDatabases(s) ==
    \E i \in 1..Len(s) :
        MatchBoundary(s, MatchLiteral(s, MatchKeyword(s, i, KW_SHOW, FALSE),
                                      KW_DATABASES, FALSE)) # 0

\* the search for USE\s+ without the leading \b
SearchUse_NoBoundary(s) ==
    \E i \in 1..Len(s) : MatchSpaces1(s, MatchLiteral(s, i, KW_USE, FALSE)) # 0

\* re.search of \bUSE\s+
SearchUse(s) == \E i \in 1..Len(s) : MatchKeyword(s, i, KW_USE, FALSE) # 0

\* system_table_patterns: \b, the literal and, where word_end, a closing \b
system_table_patterns ==
    << [lit |-> <<"m", "y", "s", "q", "l", ".", "u", "s", "e", "r">>, word_end |-> TRUE],
       [lit |-> <<"m", "y", "s", "q", "l", ".", "d", "b">>, word_end |-> TRUE],
       [lit |-> DB_INFORMATION_SCHEMA \o <<".">>, word_end |-> FALSE],
       [lit |-> DB_PERFORMANCE_SCHEMA \o <<".">>, word_end |-> FALSE],
       [lit |-> DB_SYS \o <<".">>, word_end |-> FALSE] >>

\* re.search(pattern, s, re.IGNORECASE) of a system table pattern
SearchSystemTable(pattern, s) ==
    \E i \in 1..Len(s) :
        \E e \in {MatchLiteral(s, MatchBoundary(s, i), pattern.lit, TRUE)} :
            IF pattern.word_end THEN MatchBoundary(s, e) # 0 ELSE e # 0

RECURSIVE SystemTableLoop_NoBreak(_, _, _)
\* the loop over system_table_patterns without the break: every match under
\* STRICT appends the violation
SystemTableLoop_NoBreak(self, s, k) ==
    IF k > Len(system_table_patterns) THEN <<>>
    ELSE (IF SearchSystemTable(system_table_patterns[k], s)
             /\ self.access_level = STRICT
          THEN <<VIOLATION_SYSTEM_TABLE>> ELSE <<>>)
         \o SystemTableLoop_NoBreak(self, s, k + 1)

RECURSIVE SystemTableLoop(_, _, _)
\* the loop over system_table_patterns from the k-th: the first match under
\* STRICT appends the violation and breaks
SystemTableLoop(self, s, k) ==
    IF k > Len(system_table_patterns) THEN <<>>
    ELSE IF SearchSystemTable(system_table_patterns[k], s)
            /\ self.access_level = STRICT
         THEN <<VIOLATION_SYSTEM_TABLE>>
         ELSE SystemTableLoop(self, s, k + 1)

\* the SHOW DATABASES rule with the violation at every level
ShowDatabasesViolation_AnyLevel(self, s) ==
    IF SearchShowDatabases(s) THEN <<VIOLATION_SHOW_DATABASES>> ELSE <<>>

\* the SHOW DATABASES rule of _check_special_queries
ShowDatabasesViolation(self, s) ==
    IF SearchShowDatabases(s) /\ self.access_level = STRICT
    THEN <<VIOLATION_SHOW_DATABASES>> ELSE <<>>

\* the USE rule with the level test of the two other rules
UseViolation_StrictOnly(self, s) ==
    IF SearchUse(s) /\ self.access_level = STRICT THEN <<VIOLATION_USE>> ELSE <<>>

\* the USE rule of _check_special_queries
UseViolation(self, s) == IF SearchUse(s) THEN <<VIOLATION_USE>> ELSE <<>>

\* the three rules of _check_special_queries on the normalized text
SpecialViolations(self, normalized_sql) ==
    ShowDatabasesViolation(self, normalized_sql)
        \o UseViolation(self, normalized_sql)
        \o SystemTableLoop(self, normalized_sql, 1)

\* _check_special_queries without the upper() of the text
check_special_queries_NoUpper(self, sql_query) ==
    SpecialViolations(self, strip(sql_query))

\* _check_special_queries
check_special_queries(self, sql_query) ==
    SpecialViolations(self, strip(upper(sql_query)))

RECURSIVE LexLess(_, _)
\* a < b for two str values (code-point order)
LexLess(a, b) ==
    IF b = <<>> THEN FALSE
    ELSE IF a = <<>> THEN TRUE
    ELSE IF a[1] # b[1] THEN ord(a[1]) < ord(b[1])
    ELSE LexLess(Tail(a), Tail(b))

\* The string-hash seeds of the process (PYTHONHASHSEED) the model tells apart
HashSeeds == {0, 1}

RECURSIVE SetIteration(_, _)
\* The order in which "for db_name in referenced_databases" visits a set of
\* str.  A set is iterated in the order of the slots its elements hash to, and
\* str hashes are keyed by the process's seed: of two names either may come
\* first, the same one throughout a process.
SetIteration(seed, S) ==
    IF S = {} THEN <<>>
    ELSE LET x == CHOOSE y \in S : \A z \in S \ {y} :
                      IF seed = 0 THEN LexLess(z, y) ELSE LexLess(y, z)
         IN  SetIteration(seed, S \ {x}) \o <<x>>

RECURSIVE DatabaseViolations(_, _)
\* the loop of check_query over the referenced databases, in iteration order
DatabaseViolations(self, dbs) ==
    IF dbs = <<>> THEN <<>>
    ELSE (IF ~is_database_allowed(self, Head(dbs))
          THEN <<VIOLATION_DATABASE(Head(dbs))>> ELSE <<>>)
         \o DatabaseViolations(self, Tail(dbs))

\* the return value of check_query for the violations found
CheckResult(found) == [is_allowed |-> Len(found) = 0, violations |-> found]

\* check_query with is_allowed taken before the special violations are added
check_query_AllowedBeforeSpecial(self, seed, sql_query) ==
    IF ~self.is_enabled THEN [is_allowed |-> TRUE, violations |-> <<>>]
    ELSE [is_allowed |-> \A db_name \in extract_databases(sql_query) :
                             is_database_allowed(self, db_name),
          violations |-> DatabaseViolations(self, SetIteration(seed,
                                                extract_databases(sql_query)))
                         \o check_special_queries(self, sql_query)]

\* check_query, in a process whose hash seed is seed
check_query(self, seed, sql_query) ==
    IF ~self.is_enabled THEN [is_allowed |-> TRUE, violations |-> <<>>]
    ELSE CheckResult(
             DatabaseViolations(self, SetIteration(seed, extract_databases(sql_query)))
             \o check_special_queries(self, sql_query))

---------------------------------------------------------------------------
(* The statements the model hands to the checker: every concatenation of   *)
(* at most MaxFragments of the fragments below.                            *)

Fragments ==
    << <<"S", "E", "L", "E", "C", "T", " ", "*", " ", "F", "R", "O", "M", " ">>,
       <<"s", "h", "o", "p", ".", "o", "r", "d", "e", "r", "s">>,
       <<"o", "t", "h", "e", "r", ".", "o", "r", "d", "e", "r", "s">>,
       <<" ", "J", "O", "I", "N", " ", "c", "r", "m", ".", "t">>,
       <<"U", "S", "E", " ", "\n">>,
       <<"c", "r", "m">>,
       <<"S", "H", "O", "W", " ", "D", "A", "T", "A", "B", "A", "S", "E", "S">>,
       <<"S", "H", "O", "W", " ", "T", "A", "B", "L", "E", "S", " ", "F", "R", "O", "M", " ">>,
       <<"m", "y", "s", "q", "l", ".", "u", "s", "e", "r">>,
       <<"s", "y", "s", ".">>,
       <<"S", "h", "o", "p", " ", ".", "\t", "t">>,
       <<"m", "y", "s", "q", "l", " ", ".", " ", "d", "b">>,
       <<"e", "x", "c", "u", "s", "e", " ">> >>

MaxFragments == 2

RECURSIVE QueriesOfLength(_)
QueriesOfLength(n) ==
    IF n = 0 THEN {<<>>}
    ELSE {q \o Fragments[k] : q \in QueriesOfLength(n - 1), k \in DOMAIN Fragments}

Queries == UNION {QueriesOfLength(n) : n \in 0..MaxFragments}

DB_SHOP == <<"s", "h", "o", "p">>

\* The values of allowed_database the model constructs checkers with
AllowedDatabases == {None, DB_SHOP}

---------------------------------------------------------------------------
(* Direct use of a checker: check_query called on statement after          *)
(* statement.                                                              *)

NoCall ==
    /\ pc = "idle"
    /\ op = "none"
    /\ query = <<>>
    /\ is_allowed = TRUE
    /\ violations = <<>>
    /\ connection = "none"
    /\ acquired = FALSE
    /\ executed = FALSE
    /\ error = <<>>
    /\ exit_path = "none"

\* EnvironmentType, as mysql_info_tool.py uses it
DEVELOPMENT == "development"
PRODUCTION  == "production"

EnvironmentType == {DEVELOPMENT, PRODUCTION}

\* no call of create_database_checker
NoConfig == [allowed_database |-> None, access_level |-> <<>>]

\* a development environment, where check_environment_permission refuses nothing
NoEnvironment ==
    /\ env_type = DEVELOPMENT
    /\ allow_sensitive_info = None
    /\ permitted = TRUE

\* no call of filter_sensitive_info and no rows
\* no run of the agent graph
NoAgent ==
    /\ state = <<>>
    /\ node = "none"
    /\ previous = "none"

NoFilter ==
    /\ heap = <<>>
    /\ results = <<>>
    /\ filter_patterns = <<>>
    /\ filtered_results = <<>>
    /\ original = <<>>
    /\ passes = 0

Init ==
    /\ \E allowed_database \in AllowedDatabases, access_level \in DatabaseAccessLevel :
           database_checker = <<DatabaseScopeChecker(allowed_database, access_level)>>
    /\ hash_seed \in HashSeeds
    /\ config = NoConfig
    /\ NoCall
    /\ NoEnvironment
    /\ NoFilter
    /\ NoAgent

\* a call of database_checker.check_query(q)
CheckQuery(q) ==
    /\ pc = "idle"
    /\ database_checker # <<>>
    /\ \E r \in {check_query(database_checker[1], hash_seed, q)} :
           /\ is_allowed' = r.is_allowed
           /\ violations' = r.violations
    /\ op' = "check_query"
    /\ query' = q
    /\ pc' = "returned"
    /\ UNCHANGED <<database_checker, hash_seed, connection, acquired, executed, error,
                   exit_path, config, info_vars, filter_vars, agent_vars>>

\* the caller takes the result (or the exception); the next call may start
Return ==
    /\ pc \in {"returned", "raised"}
    /\ pc' = "idle"
    /\ op' = "none"
    /\ query' = <<>>
    /\ is_allowed' = TRUE
    /\ violations' = <<>>
    /\ connection' = "none"
    /\ acquired' = FALSE
    /\ executed' = FALSE
    /\ error' = <<>>
    /\ exit_path' = "none"
    /\ permitted' = TRUE
    /\ UNCHANGED <<database_checker, hash_seed, config, env_type, allow_sensitive_info,
                   filter_vars, agent_vars>>

Next ==
    \/ \E q \in Queries : CheckQuery(q)
    \/ Return

Spec == Init /\ [][Next]_vars

---------------------------------------------------------------------------
(* The query gateway: the tools mysql_query and mysql_show_databases, as   *)
(* registered by register_mysql_tool and register_info_tools.              *)

\* The values of SecurityConfig.DATABASE_ACCESS_LEVEL the model configures
ConfigAccessLevels ==
    { <<"s", "t", "r", "i", "c", "t">>,
      <<"S", "t", "r", "i", "c", "t">>,
      <<"S", "T", "R", "I", "C", "T">>,
      <<"r", "e", "s", "t", "r", "i", "c", "t", "e", "d">>,
      <<"R", "e", "s", "t", "r", "i", "c", "t", "e", "d">>,
      <<"p", "e", "r", "m", "i", "s", "s", "i", "v", "e">>,
      <<"b", "o", "g", "u", "s">>,
      <<"s", "t", "r", "i", "c", "t", " ">>,
      <<>> }

\* The values of DatabaseConfig.DATABASE the model configures
ConfigDatabases == {None, <<>>, DB_SHOP}

\* DatabaseAccessLevel(value): the member with that value, or ValueError
EnumLookup(value) ==
    CASE value = <<"s", "t", "r", "i", "c", "t">> -> STRICT
      [] value = <<"r", "e", "s", "t", "r", "i", "c", "t", "e", "d">> -> RESTRICTED
      [] value = <<"p", "e", "r", "m", "i", "s", "s", "i", "v", "e">> -> PERMISSIVE
      [] OTHER -> "ValueError"

\* create_database_checker
\* the level after the try/except of create_database_checker
LevelOrDefault(found) == IF found = "ValueError" THEN PERMISSIVE ELSE found

\* create_database_checker taking the level text as it is written
create_database_checker_NoLower(allowed_database, access_level) ==
    DatabaseScopeChecker(allowed_database, LevelOrDefault(EnumLookup(access_level)))

\* create_database_checker
create_database_checker(allowed_database, access_level) ==
    DatabaseScopeChecker(allowed_database, LevelOrDefault(EnumLookup(lower(access_level))))

\* database_checker as register_mysql_tool and register_info_tools set it
RegisterChecker(enable_database_isolation, database, access_level) ==
    IF enable_database_isolation /\ Truthy(database)
    THEN <<create_database_checker(database, access_level)>>
    ELSE <<>>

RECURSIVE Join(_, _)
\* sep.join(parts)
Join(sep, parts) ==
    IF Len(parts) <= 1 THEN parts
    ELSE <<Head(parts), sep>> \o Join(sep, Tail(parts))

\* f"数据库隔离限制: {violation_details}" with "; ".join(violations)
IsolationMessage(found) ==
    <<<<"database isolation restriction: ", <<>>>>>> \o Join(<<"; ", <<>>>>, found)

SHOW_DATABASES == <<"S", "H", "O", "W", " ", "D", "A", "T", "A", "B", "A", "S", "E", "S">>

InitGateway ==
    /\ \E enable \in BOOLEAN, database \in ConfigDatabases, level \in ConfigAccessLevels :
           database_checker = RegisterChecker(enable, database, level)
    /\ config = NoConfig
    /\ hash_seed \in HashSeeds
    /\ NoCall
    /\ NoEnvironment
    /\ NoFilter
    /\ NoAgent

\* the isolation check without the raise: the call goes on to the connection
IsolationCheck_NoRaise(sql, exc) ==
    /\ \E r \in {IF database_checker # <<>>
                  THEN check_query(database_checker[1], hash_seed, sql)
                  ELSE [is_allowed |-> is_allowed, violations |-> violations]} :
           /\ is_allowed' = r.is_allowed
           /\ violations' = r.violations
    /\ error' = <<>>
    /\ pc' = "acquire"

\* The isolation check of a tool: check_query on the statement, and the
\* exception of kind exc on a denial; otherwise on to the connection.
IsolationCheck(sql, exc) ==
    IF database_checker # <<>>
    THEN \E r \in {check_query(database_checker[1], hash_seed, sql)} :
             /\ is_allowed' = r.is_allowed
             /\ violations' = r.violations
             /\ IF ~r.is_allowed
                THEN /\ error' = <<exc, IsolationMessage(r.violations)>>
                     /\ pc' = "raised"
                ELSE /\ error' = <<>>
                     /\ pc' = "acquire"
    ELSE /\ UNCHANGED <<is_allowed, violations, error>>
         /\ pc' = "acquire"

\* mysql_query(query, params), up to the async with
mysql_query(q) ==
    /\ pc = "idle"
    /\ op' = "mysql_query"
    /\ query' = q
    /\ IsolationCheck(q, "ValueError")
    /\ UNCHANGED <<database_checker, hash_seed, connection, acquired, executed,
                   exit_path, config, info_vars, filter_vars, agent_vars>>

\* mysql_show_databases(pattern, limit, exclude_system), up to the async with;
\* pattern_ok, limit_ok: what validate_parameter finds
mysql_show_databases(pattern_ok, limit_ok) ==
    /\ pc = "idle"
    /\ op' = "mysql_show_databases"
    /\ query' = SHOW_DATABASES
    /\ IF ~(pattern_ok /\ limit_ok)
       THEN /\ error' = <<"ParameterValidationError", <<>>>>
            /\ pc' = "raised"
            /\ UNCHANGED <<is_allowed, violations>>
       ELSE IsolationCheck(SHOW_DATABASES, "SecurityError")
    /\ UNCHANGED <<database_checker, hash_seed, connection, acquired, executed,
                   exit_path, config, info_vars, filter_vars, agent_vars>>

\* async with get_db_connection() as connection: the pool hands out a
\* connection, or raises
get_db_connection ==
    /\ pc = "acquire"
    /\ \/ /\ connection' = "held"
          /\ acquired' = TRUE
          /\ pc' = "execute"
          /\ UNCHANGED error
       \/ /\ error' = <<"ConnectionError", <<>>>>
          /\ pc' = "raised"
          /\ UNCHANGED <<connection, acquired>>
    /\ UNCHANGED <<database_checker, hash_seed, op, query, is_allowed, violations, executed,
                   exit_path, config, info_vars, filter_vars, agent_vars>>

\* await execute_query(connection, query, params): rows, or an exception
execute_query ==
    /\ pc = "execute"
    /\ connection = "held"
    /\ executed' = TRUE
    /\ \/ /\ pc' = "process"
          /\ UNCHANGED <<error, exit_path>>
       \/ /\ error' = <<"QueryError", <<>>>>
          /\ exit_path' = "exception"
          /\ pc' = "exit"
    /\ UNCHANGED <<database_checker, hash_seed, op, query, is_allowed, violations,
                   connection, acquired, config, info_vars, filter_vars, agent_vars>>

\* The rest of the async with body: mysql_query takes the statement's first
\* word (IndexError on a blank statement) and wraps the rows;
\* mysql_show_databases returns early when the rows have no database field,
\* and filters the rows otherwise, which may raise; the other tools format
\* the rows, which may raise.
ProcessResults ==
    /\ pc = "process"
    /\ \/ /\ op = "mysql_query" => strip(query) # <<>>
          /\ UNCHANGED error
          /\ exit_path' = "return"
       \/ /\ op = "mysql_show_databases"
          /\ UNCHANGED error
          /\ exit_path' = "early_return"
       \/ /\ op = "mysql_query" => strip(query) = <<>>
          /\ error' = <<IF op = "mysql_query" THEN "IndexError" ELSE "Exception", <<>>>>
          /\ exit_path' = "exception"
    /\ pc' = "exit"
    /\ UNCHANGED <<database_checker, hash_seed, op, query, is_allowed, violations,
                   connection, acquired, executed, config, info_vars, filter_vars, agent_vars>>

\* what the exit of get_db_connection's context manager leaves of the
\* connection: it is released
connection_after_exit == "none"

\* leaving the async with on an exception only: a normal return keeps the
\* connection
ReleaseConnection_OnExceptionOnly ==
    /\ pc = "exit"
    /\ connection' = IF error = <<>> THEN connection ELSE connection_after_exit
    /\ pc' = IF error = <<>> THEN "returned" ELSE "raised"
    /\ UNCHANGED <<database_checker, hash_seed, op, query, is_allowed, violations,
                   acquired, executed, error, exit_path, config, info_vars, filter_vars, agent_vars>>

\* leaving the async with: the context manager's exit runs on every path, and
\* the call returns or the exception propagates
ReleaseConnection ==
    /\ pc = "exit"
    /\ connection' = connection_after_exit
    /\ pc' = IF error = <<>> THEN "returned" ELSE "raised"
    /\ UNCHANGED <<database_checker, hash_seed, op, query, is_allowed, violations,
                   acquired, executed, error, exit_path, config, info_vars, filter_vars, agent_vars>>

\* The values of the environment variable ALLOW_SENSITIVE_INFO the model
\* sets (None: the variable is not set)
AllowSensitiveValues ==
    { None,
      <<"t", "r", "u", "e">>,
      <<"T", "R", "U", "E">>,
      <<"f", "a", "l", "s", "e">>,
      <<"1">> }

\* os.getenv(name, default), value being what the environment holds for name
getenv(value, default) == IF value = None THEN default ELSE value

\* sensitive_queries of check_environment_permission
sensitive_queries == {"variables", "status", "processlist"}

\* The query types the model calls check_environment_permission with
QueryTypes == sensitive_queries \cup {"databases", "tables", "VARIABLES"}

\* check_environment_permission(env_type, query_type), allow being the value
\* of ALLOW_SENSITIVE_INFO
check_environment_permission(env, allow, query_type) ==
    IF env = DEVELOPMENT THEN TRUE
    ELSE IF query_type \in sensitive_queries
            /\ lower(getenv(allow, <<"f", "a", "l", "s", "e">>)) # <<"t", "r", "u", "e">>
         THEN FALSE
         ELSE TRUE

\* a direct call of check_environment_permission(sql_analyzer.env_type,
\* query_type); query holds the query type
CheckEnvironmentPermission(query_type) ==
    /\ pc = "idle"
    /\ op' = "check_environment_permission"
    /\ query' = <<query_type>>
    /\ permitted' = check_environment_permission(env_type, allow_sensitive_info, query_type)
    /\ pc' = "returned"
    /\ UNCHANGED <<database_checker, hash_seed, is_allowed, violations, connection,
                   acquired, executed, error, exit_path, config, env_type,
                   allow_sensitive_info, filter_vars, agent_vars>>

SHOW == <<"S", "H", "O", "W", " ">>

\* f"SHOW {scope} VARIABLES" and f"SHOW {scope} STATUS"
InfoQuery(global_scope, what) ==
    SHOW \o (IF global_scope THEN <<"G", "L", "O", "B", "A", "L">>
                             ELSE <<"S", "E", "S", "S", "I", "O", "N">>)
         \o <<" ">> \o what

\* the checks of an info tool with the parameters validated first
InfoToolChecks_ValidationFirst(ok, pattern_ok, text) ==
    /\ permitted' = ok
    /\ IF ~pattern_ok
       THEN /\ error' = <<"ParameterValidationError", <<>>>>
            /\ query' = <<>>
            /\ pc' = "raised"
       ELSE IF ~ok
       THEN /\ error' = <<"SecurityError", <<>>>>
            /\ query' = <<>>
            /\ pc' = "raised"
       ELSE /\ error' = <<>>
            /\ query' = text
            /\ pc' = "acquire"

\* The checks of mysql_show_variables and mysql_show_status up to the async
\* with: the environment permission (ok), then the validation of the pattern,
\* then the text of the query
InfoToolChecks(ok, pattern_ok, text) ==
    /\ permitted' = ok
    /\ IF ~ok
       THEN /\ error' = <<"SecurityError", <<>>>>
            /\ query' = <<>>
            /\ pc' = "raised"
       ELSE IF ~pattern_ok
       THEN /\ error' = <<"ParameterValidationError", <<>>>>
            /\ query' = <<>>
            /\ pc' = "raised"
       ELSE /\ error' = <<>>
            /\ query' = text
            /\ pc' = "acquire"

\* mysql_show_variables(pattern, global_scope), up to the async with
mysql_show_variables(pattern_ok, global_scope) ==
    /\ pc = "idle"
    /\ op' = "mysql_show_variables"
    /\ InfoToolChecks(
           check_environment_permission(env_type, allow_sensitive_info, "variables"),
           pattern_ok,
           InfoQuery(global_scope, <<"V", "A", "R", "I", "A", "B", "L", "E", "S">>))
    /\ UNCHANGED <<database_checker, hash_seed, is_allowed, violations, connection,
                   acquired, executed, exit_path, config, env_type,
                   allow_sensitive_info, filter_vars, agent_vars>>

\* mysql_show_status(pattern, global_scope), up to the async with
mysql_show_status(pattern_ok, global_scope) ==
    /\ pc = "idle"
    /\ op' = "mysql_show_status"
    /\ InfoToolChecks(
           check_environment_permission(env_type, allow_sensitive_info, "status"),
           pattern_ok,
           InfoQuery(global_scope, <<"S", "T", "A", "T", "U", "S">>))
    /\ UNCHANGED <<database_checker, hash_seed, is_allowed, violations, connection,
                   acquired, executed, exit_path, config, env_type,
                   allow_sensitive_info, filter_vars, agent_vars>>

NextGateway ==
    \/ \E q \in Queries : mysql_query(q)
    \/ \E pattern_ok \in BOOLEAN, limit_ok \in BOOLEAN :
           mysql_show_databases(pattern_ok, limit_ok)
    \/ \E pattern_ok \in BOOLEAN, global_scope \in BOOLEAN :
           mysql_show_variables(pattern_ok, global_scope)
    \/ \E pattern_ok \in BOOLEAN, global_scope \in BOOLEAN :
           mysql_show_status(pattern_ok, global_scope)
    \/ get_db_connection
    \/ execute_query
    \/ ProcessResults
    \/ ReleaseConnection
    \/ Return

SpecGateway == InitGateway /\ [][NextGateway]_vars

---------------------------------------------------------------------------
(* The info tools of register_info_tools in an environment: the            *)
(* environment type and ALLOW_SENSITIVE_INFO vary, no scope checker is     *)
(* configured.                                                             *)

InitInfo ==
    /\ env_type \in EnvironmentType
    /\ allow_sensitive_info \in AllowSensitiveValues
    /\ permitted = TRUE
    /\ database_checker = <<>>
    /\ hash_seed = 0
    /\ config = NoConfig
    /\ NoCall
    /\ NoFilter
    /\ NoAgent

NextInfo ==
    \/ \E query_type \in QueryTypes : CheckEnvironmentPermission(query_type)
    \/ \E pattern_ok \in BOOLEAN, limit_ok \in BOOLEAN :
           mysql_show_databases(pattern_ok, limit_ok)
    \/ \E pattern_ok \in BOOLEAN, global_scope \in BOOLEAN :
           mysql_show_variables(pattern_ok, global_scope)
    \/ \E pattern_ok \in BOOLEAN, global_scope \in BOOLEAN :
           mysql_show_status(pattern_ok, global_scope)
    \/ get_db_connection
    \/ execute_query
    \/ ProcessResults
    \/ ReleaseConnection
    \/ Return

SpecInfo == InitInfo /\ [][NextInfo]_vars

---------------------------------------------------------------------------
(* create_database_checker called on a configuration, and the checker it   *)
(* returns used.                                                           *)

InitConfig ==
    /\ \E allowed_database \in AllowedDatabases, access_level \in ConfigAccessLevels :
           config = [allowed_database |-> allowed_database, access_level |-> access_level]
    /\ database_checker = <<>>
    /\ hash_seed = 0
    /\ NoCall
    /\ NoEnvironment
    /\ NoFilter
    /\ NoAgent

\* database_checker = create_database_checker(allowed_database, access_level)
CreateChecker ==
    /\ pc = "idle"
    /\ database_checker = <<>>
    /\ database_checker' =
           <<create_database_checker(config.allowed_database, config.access_level)>>
    /\ UNCHANGED <<hash_seed, pc, op, query, is_allowed, violations, connection, acquired,
                   executed, error, exit_path, config, info_vars, filter_vars, agent_vars>>

NextConfig ==
    \/ CreateChecker
    \/ \E q \in Queries : CheckQuery(q)
    \/ Return

SpecConfig == InitConfig /\ [][NextConfig]_vars

---------------------------------------------------------------------------
(* filter_sensitive_info of mysql_info_tool.py. A row is a dict: the        *)
(* sequence of its <<field name, value>> items in the order of the dict    *)
(* (values are texts, or None). The dicts live on a heap, and a list of    *)
(* rows is a sequence of references into it, so that a copy and the dict   *)
(* it was copied from are told apart.                                      *)

\* the dict with the given keys, in that order, and the values of the record
dict(key_order, fields) ==
    [i \in 1..Len(key_order) |-> <<key_order[i], fields[key_order[i]]>>]

\* the keys of a dict, for key in d
keys(d) == {d[i][1] : i \in 1..Len(d)}

\* d[key]
getitem(d, key) == d[CHOOSE i \in 1..Len(d) : d[i][1] = key][2]

\* default_patterns of get_sensitive_patterns, which SENSITIVE_VARIABLE_PATTERNS
\* is when SENSITIVE_INFO_FIELDS is not set
SENSITIVE_VARIABLE_PATTERNS ==
    << <<"p", "a", "s", "s", "w", "o", "r", "d">>, <<"a", "u", "t", "h">>, <<"c", "r", "e", "d", "e", "n", "t", "i", "a", "l">>, <<"k", "e", "y">>, <<"s", "e", "c", "r", "e", "t">>, <<"p", "r", "i", "v", "a", "t", "e">>,
       <<"h", "o", "s", "t">>, <<"p", "a", "t", "h">>, <<"d", "i", "r", "e", "c", "t", "o", "r", "y">>, <<"s", "s", "l">>, <<"i", "p", "t", "a", "b", "l", "e", "s">>, <<"f", "i", "l", "t", "e", "r">> >>

VARIABLE_NAME_FIELDS ==
    <<"Variable_name", "variable_name", "name", "Name", "key", "Key", "Setting">>

VALUE_FIELDS ==
    <<"Value", "value", "variable_value", "val", "setting", "Setting_Value">>

HIDDEN == <<"*", "*", "*", " ", "H", "I", "D", "D", "E", "N", " ", "*", "*", "*">>

\* str(value)
str(value) == IF value = None THEN <<"N", "o", "n", "e">> ELSE value

\* re.compile raises re.error for the pattern: of the patterns of the model,
\* the ones with a parenthesis that is not closed
Malformed(pattern) ==
    Cardinality({i \in 1..Len(pattern) : pattern[i] = "("})
        # Cardinality({i \in 1..Len(pattern) : pattern[i] = ")"})

\* re.search(pattern, string, re.IGNORECASE) is not None, for a pattern that
\* is a literal text
re_search(pattern, string) ==
    \E k \in 1..Len(string) + 1 : MatchLiteral(string, k, pattern, TRUE) = k + Len(pattern)

\* any(re.search(pattern, var_name, re.IGNORECASE) for pattern in
\* filter_patterns), from the i-th pattern on: "True", "False", or "error"
\* when a pattern that is reached raises re.error
RECURSIVE any_search(_, _, _)
any_search(patterns, var_name, i) ==
    IF i > Len(patterns) THEN "False"
    ELSE IF Malformed(patterns[i]) THEN "error"
    ELSE IF re_search(patterns[i], var_name) THEN "True"
    ELSE any_search(patterns, var_name, i + 1)

\* the name field taken in the order of the row: the first field of the row
\* that is one of VARIABLE_NAME_FIELDS
name_field_RowOrder(row) ==
    IF \A n \in 1..Len(row) : row[n][1] \notin Range(VARIABLE_NAME_FIELDS)
    THEN <<>>
    ELSE << row[CHOOSE n \in 1..Len(row) :
                  /\ row[n][1] \in Range(VARIABLE_NAME_FIELDS)
                  /\ \A m \in 1..(n - 1) :
                         row[m][1] \notin Range(VARIABLE_NAME_FIELDS)][1] >>

\* a name field that falls back on the field Value
name_field_OrValue(row) ==
    IF \A i \in 1..Len(VARIABLE_NAME_FIELDS) : VARIABLE_NAME_FIELDS[i] \notin keys(row)
    THEN (IF "Value" \in keys(row) THEN <<"Value">> ELSE <<>>)
    ELSE << VARIABLE_NAME_FIELDS[
              CHOOSE i \in 1..Len(VARIABLE_NAME_FIELDS) :
                  /\ VARIABLE_NAME_FIELDS[i] \in keys(row)
                  /\ \A j \in 1..(i - 1) : VARIABLE_NAME_FIELDS[j] \notin keys(row) ] >>

\* name_field after the loop over VARIABLE_NAME_FIELDS: <<the first of them
\* that is in the row>>, or <<>> for None
name_field(row) ==
    IF \A i \in 1..Len(VARIABLE_NAME_FIELDS) : VARIABLE_NAME_FIELDS[i] \notin keys(row)
    THEN <<>>
    ELSE << VARIABLE_NAME_FIELDS[
              CHOOSE i \in 1..Len(VARIABLE_NAME_FIELDS) :
                  /\ VARIABLE_NAME_FIELDS[i] \in keys(row)
                  /\ \A j \in 1..(i - 1) : VARIABLE_NAME_FIELDS[j] \notin keys(row) ] >>

\* is_sensitive of a row: "False" without a name field, else the any(...)
\* over the lower-cased text of the name
is_sensitive(row, patterns, field) ==
    IF field = <<>> THEN "False"
    ELSE any_search(patterns, lower(str(getitem(row, field[1]))), 1)

\* masking only the first value field the row has
mask_FirstOnly(row) ==
    [n \in 1..Len(row) |->
        IF /\ \E i \in 1..Len(VALUE_FIELDS) :
                 /\ VALUE_FIELDS[i] = row[n][1]
                 /\ \A j \in 1..(i - 1) : VALUE_FIELDS[j] \notin keys(row)
        THEN <<row[n][1], HIDDEN>> ELSE row[n]]

\* masking that keeps the value after the sentinel
mask_Prefix(row) ==
    [n \in 1..Len(row) |->
        IF row[n][1] \in Range(VALUE_FIELDS)
        THEN <<row[n][1], HIDDEN \o str(row[n][2])>> ELSE row[n]]

\* the loop over VALUE_FIELDS: every value field the row has is set to the
\* sentinel
mask(row) ==
    [n \in 1..Len(row) |->
        IF row[n][1] \in Range(VALUE_FIELDS) THEN <<row[n][1], HIDDEN>> ELSE row[n]]

\* a copy that is the same dict
dict_copy_Alias(h, item) == [heap |-> h, ref |-> item]

\* item.copy(): a new dict with the fields and values of item
dict_copy(h, item) == [heap |-> Append(h, h[item]), ref |-> Len(h) + 1]

\* One round of the loop for the copy c of an item: the heap after it and the
\* reference appended to filtered_results, or error when re.search raises
FilterItem(c, sensitive) ==
    [ heap  |-> IF sensitive = "True"
                THEN [c.heap EXCEPT ![c.ref] = mask(c.heap[c.ref])]
                ELSE c.heap,
      ref   |-> c.ref,
      error |-> sensitive = "error" ]

\* The loop of filter_sensitive_info from the i-th item on, filtered being
\* filtered_results so far: the heap and filtered_results at the return, or
\* error when the exception leaves the function
RECURSIVE FilterLoop(_, _, _, _, _)
FilterStep(h, items, patterns, i, filtered, r) ==
    IF r.error THEN [heap |-> r.heap, filtered_results |-> <<>>, error |-> TRUE]
    ELSE FilterLoop(r.heap, items, patterns, i + 1, Append(filtered, r.ref))

FilterCopied(h, items, patterns, i, filtered, c) ==
    FilterStep(h, items, patterns, i, filtered,
               FilterItem(c, is_sensitive(c.heap[c.ref], patterns,
                                          name_field(c.heap[c.ref]))))

FilterLoop(h, items, patterns, i, filtered) ==
    IF i > Len(items)
    THEN [heap |-> h, filtered_results |-> filtered, error |-> FALSE]
    ELSE FilterCopied(h, items, patterns, i, filtered, dict_copy(h, items[i]))

\* filter_patterns after the default: the argument is <<>> for None, or
\* <<the list>>
EffectivePatterns(argument) ==
    IF Len(argument) = 0 \/ Len(argument[1]) = 0
    THEN SENSITIVE_VARIABLE_PATTERNS
    ELSE argument[1]

\* The sample rows; two of them are the same fields in two orders
Rows ==
    { dict(<<"Variable_name", "Value">>,
           [Variable_name |-> <<"s", "s", "l", "_", "c", "a">>, Value |-> <<"p", "e", "m">>]),
      dict(<<"Variable_name", "Value">>,
           [Variable_name |-> <<"m", "a", "x", "_", "c", "o", "n", "n", "e", "c", "t", "i", "o", "n", "s">>, Value |-> <<"1", "5", "1">>]),
      dict(<<"Value", "host">>,
           [Value |-> <<"k", "e", "y">>, host |-> <<"d", "b">>]),
      dict(<<"Setting", "setting", "Value", "x">>,
           [Setting |-> <<"S", "S", "L", "_", "K", "e", "y">>, setting |-> <<"o", "n">>, Value |-> <<"1">>, x |-> <<"y">>]),
      dict(<<"name", "val">>,
           [name |-> None, val |-> <<"v">>]),
      dict(<<"Variable_name", "name", "Value">>,
           [Variable_name |-> <<"m", "a", "x">>, name |-> <<"s", "s", "l", "_", "c", "a">>, Value |-> <<"1">>]),
      dict(<<"name", "Variable_name", "Value">>,
           [Variable_name |-> <<"m", "a", "x">>, name |-> <<"s", "s", "l", "_", "c", "a">>, Value |-> <<"1">>]),
      dict(<<"Value", "Key", "key">>,
           [Value |-> <<"1">>, Key |-> <<"m", "a", "x">>, key |-> <<"s", "s", "l", "_", "c", "a">>]) }

MaxRows == 2

RECURSIVE RowLists(_)
RowLists(n) ==
    IF n = 0 THEN {<<>>}
    ELSE RowLists(n - 1)
           \cup {Append(l, r) : l \in {l \in RowLists(n - 1) : Len(l) = n - 1}, r \in Rows}

\* The filter_patterns arguments: None, the empty list, and lists of literal
\* patterns and of the malformed pattern "("
PatternArguments ==
    { <<>>,
      << <<>> >>,
      << << <<"s", "s", "l">> >> >>,
      << << <<"m", "a", "x">> >> >>,
      << << <<"(">> >> >>,
      << << <<"s", "s", "l">>, <<"(">> >> >>,
      << << <<"(">>, <<"s", "s", "l">> >> >> }

\* what a call of filter_sensitive_info(items, argument) on the heap h leaves
FilterCall(h, items, argument, r) ==
    /\ op' = "filter_sensitive_info"
    /\ results' = items
    /\ filter_patterns' = argument
    /\ original' = [i \in 1..Len(items) |-> h[items[i]]]
    /\ heap' = r.heap
    /\ filtered_results' = r.filtered_results
    /\ error' = IF r.error THEN <<"re.error", <<>>>> ELSE <<>>
    /\ pc' = IF r.error THEN "raised" ELSE "returned"
    /\ UNCHANGED <<database_checker, hash_seed, query, is_allowed, violations,
                   connection, acquired, executed, exit_path, config, info_vars,
                   agent_vars>>

\* filter_sensitive_info(rows, argument) on a result set
FilterSensitiveInfo(rows, argument) ==
    /\ pc = "idle"
    /\ passes' = 1
    /\ FilterCall(rows, [i \in 1..Len(rows) |-> i], argument,
                  FilterLoop(rows, [i \in 1..Len(rows) |-> i],
                             EffectivePatterns(argument), 1, <<>>))

\* filter_sensitive_info again, on the rows the first call returned and with
\* the same patterns
FilterAgain ==
    /\ pc = "returned"
    /\ op = "filter_sensitive_info"
    /\ passes = 1
    /\ passes' = 2
    /\ FilterCall(heap, filtered_results, filter_patterns,
                  FilterLoop(heap, filtered_results,
                             EffectivePatterns(filter_patterns), 1, <<>>))

InitFilter ==
    /\ database_checker = <<>>
    /\ hash_seed = 0
    /\ config = NoConfig
    /\ NoCall
    /\ NoEnvironment
    /\ NoFilter
    /\ NoAgent

\* the caller drops what the call left
ReturnFilter ==
    /\ pc \in {"returned", "raised"}
    /\ op = "filter_sensitive_info"
    /\ pc' = "idle"
    /\ op' = "none"
    /\ error' = <<>>
    /\ heap' = <<>>
    /\ results' = <<>>
    /\ filter_patterns' = <<>>
    /\ filtered_results' = <<>>
    /\ original' = <<>>
    /\ passes' = 0
    /\ UNCHANGED <<database_checker, hash_seed, query, is_allowed, violations,
                   connection, acquired, executed, exit_path, config, info_vars,
                   agent_vars>>

NextFilter ==
    \/ \E rows \in RowLists(MaxRows), argument \in PatternArguments :
           FilterSensitiveInfo(rows, argument)
    \/ FilterAgain
    \/ ReturnFilter

SpecFilter == InitFilter /\ [][NextFilter]_vars

---------------------------------------------------------------------------
(* The agent graph of src/xiaofan/graph.py with the nodes of nodes.py. The  *)
(* AgentState is a dict: a function from the keys it has to their values.   *)
(* A node runs as one step: the node function, then the routing function of *)
(* its conditional edge on the state it returned.                           *)

START == "__start__"
END   == "__end__"

\* the run has ended without a next node: an exception left a node
\* (RAISED), or the node that ran has no outgoing edge (STOPPED)
RAISED  == "__raised__"
STOPPED == "__stopped__"

Nodes ==
    { "intent_detection", "detail_search", "mumble_search",
      "query_knowledgebase", "clarification", "response_generation" }

\* d.get(key, default)
get(d, key, default) == IF key \in DOMAIN d THEN d[key] ELSE default

\* d after d[key] = value
put(d, key, value) ==
    [k \in DOMAIN d \cup {key} |-> IF k = key THEN value ELSE d[k]]

\* the default of parameters: {"models": [], "criteria": {}}, as its keys
DefaultParameters == <<"models", "criteria">>

\* result["structured_response"] of the react agent: an aiJson object
StructuredResponse == <<"structured_response">>

\* the user's texts
UserInput == <<"q">>
Answers == { <<>>, <<"a">> }

\* query_type values: the three intents, another text, and null
NoIntent == "None"
QueryTypeValues ==
    { "detail_search", "mumble_search", "query_knowledgebase", "chat", NoIntent }

\* intent_data when the LLM call or the parsing of its answer failed
FallbackIntentData ==
    [ query_type           |-> NoIntent,
      product_lines        |-> <<>>,
      parameters           |-> DefaultParameters,
      clarification_needed |-> TRUE ]

\* The intent_data the model draws: the fallback, and the JSON objects an
\* LLM answer can parse to, with a query_type, with parameters that are
\* missing, empty, filled or null, and with clarification_needed missing or
\* a boolean
IntentData ==
    {FallbackIntentData}
    \cup { [query_type |-> t] : t \in QueryTypeValues }
    \cup { [query_type |-> t, parameters |-> p] :
             t \in QueryTypeValues, p \in {<<>>, DefaultParameters, None} }
    \cup { [query_type |-> t, clarification_needed |-> c] :
             t \in QueryTypeValues, c \in BOOLEAN }
    \cup { [query_type |-> t, parameters |-> p, clarification_needed |-> c] :
             t \in QueryTypeValues, p \in {<<>>, DefaultParameters, None}, c \in BOOLEAN }

\* the routing function of intent_detection
route_intent_detection(s) ==
    IF get(s, "clarification_needed", FALSE) THEN "clarification"
    ELSE IF get(s, "intent", "") = "mumble_search" THEN "mumble_search"
    ELSE IF get(s, "intent", "") = "detail_search" THEN "detail_search"
    ELSE IF get(s, "intent", "") = "query_knowledgebase" THEN "query_knowledgebase"
    ELSE "clarification"

\* a routing function of detail_search that does not look at product_params
route_detail_search_Always(s) == "response_generation"

\* the routing function of detail_search
route_detail_search(s) ==
    IF ~Truthy(get(s, "product_params", None)) THEN "clarification"
    ELSE "response_generation"

\* the routing function of mumble_search
route_mumble_search(s) ==
    IF ~Truthy(get(s, "product_info", None)) THEN "clarification"
    ELSE "response_generation"

\* the routing function of clarification
route_clarification(s) ==
    IF Truthy(get(s, "clarification_answer", None)) THEN "intent_detection"
    ELSE "clarification"

\* a step of the graph leaves the state of the tools alone
ToolsUnchanged ==
    UNCHANGED <<database_checker, hash_seed, pc, op, query, is_allowed, violations,
                connection, acquired, executed, error, exit_path, config,
                info_vars, filter_vars>>

\* graph.invoke({"user_input": ...}): the edge from START
Invoke ==
    /\ node = "none"
    /\ state' = [user_input |-> UserInput]
    /\ previous' = START
    /\ node' = "intent_detection"
    /\ ToolsUnchanged

\* the state intent_detection returns for an intent_data
IntentState(s, intent_data) ==
    put(put(put(put(s,
        "intent", get(intent_data, "query_type", NoIntent)),
        "product_lines", get(intent_data, "product_lines", <<>>)),
        "product_params", get(intent_data, "parameters", DefaultParameters)),
        "clarification_needed", get(intent_data, "clarification_needed", FALSE))

\* the node intent_detection and its conditional edge
intent_detection(intent_data) ==
    /\ node = "intent_detection"
    /\ state' = IntentState(state, intent_data)
    /\ previous' = "intent_detection"
    /\ node' = route_intent_detection(state')
    /\ ToolsUnchanged

\* the state detail_search returns: product_info and parameter_info are set
\* when the agent answered
DetailState(s, agent_ok) ==
    IF agent_ok
    THEN put(put(s, "product_info", StructuredResponse),
             "parameter_info", StructuredResponse)
    ELSE s

\* the node detail_search and its conditional edge; the tools are fetched and
\* product_params is read before the try
detail_search(tools_ok, agent_ok) ==
    /\ node = "detail_search"
    /\ previous' = "detail_search"
    /\ IF ~tools_ok \/ get(state, "product_params", DefaultParameters) = None
       THEN /\ state' = state
            /\ node' = RAISED
       ELSE /\ state' = DetailState(state, agent_ok)
            /\ node' = route_detail_search(state')
    /\ ToolsUnchanged

\* the state mumble_search returns
MumbleState(s, agent_ok) ==
    IF agent_ok THEN put(s, "product_info", StructuredResponse) ELSE s

\* the node mumble_search and its conditional edge; the tools are fetched
\* before the try
mumble_search(tools_ok, agent_ok) ==
    /\ node = "mumble_search"
    /\ previous' = "mumble_search"
    /\ IF ~tools_ok
       THEN /\ state' = state
            /\ node' = RAISED
       ELSE /\ state' = MumbleState(state, agent_ok)
            /\ node' = route_mumble_search(state')
    /\ ToolsUnchanged

\* the node query_knowledgebase; no edge leaves it
query_knowledgebase(found) ==
    /\ node = "query_knowledgebase"
    /\ previous' = "query_knowledgebase"
    /\ state' = put(state, "response",
                    IF found THEN <<"answer">> ELSE <<"apology">>)
    /\ node' = STOPPED
    /\ ToolsUnchanged

MaxClarifications == 2

\* the state clarification returns for the line that input() read
ClarificationState(s, clarification_answer) ==
    put(put(put(s,
        "clarification_answer", clarification_answer),
        "clarification_needed", FALSE),
        "clarification_count", get(s, "clarification_count", 0) + 1)

\* the node clarification and its conditional edge
clarification(clarification_answer) ==
    /\ node = "clarification"
    /\ get(state, "clarification_count", 0) < MaxClarifications
    /\ previous' = "clarification"
    /\ state' = ClarificationState(state, clarification_answer)
    /\ node' = route_clarification(state')
    /\ ToolsUnchanged

\* the node response_generation and its edge to END; the prompt is built
\* before the try: product_info.model_dump() fails on the default [] of
\* product_info, and json.dumps(parameter_info) on an aiJson object
response_generation(llm_ok) ==
    /\ node = "response_generation"
    /\ previous' = "response_generation"
    /\ IF \/ "product_info" \notin DOMAIN state
          \/ (get(state, "intent", "") = "mumble_search"
                 /\ "parameter_info" \in DOMAIN state)
       THEN /\ state' = state
            /\ node' = RAISED
       ELSE /\ state' = put(state, "response",
                            IF llm_ok THEN <<"answer">> ELSE <<"apology">>)
            /\ node' = END
    /\ ToolsUnchanged

\* graph.invoke is over, with the state or with the exception
EndOfRun ==
    /\ node \in {END, RAISED, STOPPED}
    /\ state' = <<>>
    /\ node' = "none"
    /\ previous' = "none"
    /\ ToolsUnchanged

InitAgent ==
    /\ database_checker = <<>>
    /\ hash_seed = 0
    /\ config = NoConfig
    /\ NoCall
    /\ NoEnvironment
    /\ NoFilter
    /\ NoAgent

NextAgent ==
    \/ Invoke
    \/ \E intent_data \in IntentData : intent_detection(intent_data)
    \/ \E tools_ok \in BOOLEAN, agent_ok \in BOOLEAN : detail_search(tools_ok, agent_ok)
    \/ \E tools_ok \in BOOLEAN, agent_ok \in BOOLEAN : mumble_search(tools_ok, agent_ok)
    \/ \E found \in BOOLEAN : query_knowledgebase(found)
    \/ \E clarification_answer \in Answers : clarification(clarification_answer)
    \/ \E llm_ok \in BOOLEAN : response_generation(llm_ok)
    \/ EndOfRun

SpecAgent == InitAgent /\ [][NextAgent]_vars

---------------------------------------------------------------------------
(* The properties.                                                         *)

\* check_query has returned for the statement in query
Checked == pc = "returned" /\ op = "check_query"

\* the checker of the state (there is one wherever Checked holds)
Checker == database_checker[1]

Q_SELECT_SHOP  == Fragments[1] \o Fragments[2]
Q_SELECT_OTHER == Fragments[1] \o Fragments[3]
Q_SELECT_MYSQL == Fragments[1] \o Fragments[9]
DB_OTHER == <<"o", "t", "h", "e", "r">>

\* The text holds a database switch: the word USE (in any case), whitespace
\* and then something that is no whitespace.
ContainsUseStatement(s) ==
    \E i \in 1..Len(s) :
        /\ WordBoundary(s, i)
        /\ i + 3 <= Len(s)
        /\ upper(SubSeq(s, i, i + 2)) = KW_USE
        /\ s[i + 3] \in Whitespace
        /\ \E j \in (i + 4)..Len(s) : s[j] \notin Whitespace

\* The text holds an identifier.identifier form.
HasQualifiedIdentifier(s) ==
    \E i \in 1..Len(s) : MatchQualified(s, MatchBoundary(s, i)).end # 0

\* The text holds SHOW [FULL] TABLES FROM identifier.
HasShowTablesFrom(s) == \E i \in 1..Len(s) : MatchShowTablesFrom(s, i).end # 0

\* The text holds SHOW DATABASES (in any case).
HasShowDatabases(s) == SearchShowDatabases(upper(s))

\* The text holds one of the system table references.
HasSystemTableReference(s) ==
    \E k \in DOMAIN system_table_patterns : SearchSystemTable(system_table_patterns[k], s)

\* C1: a checker that is not enabled (level Permissive, or no allowed
\* database) answers (True, []) for every statement.
C1_NotEnabledAllowsAll ==
    (Checked /\ (Checker.access_level = PERMISSIVE \/ Checker.allowed_database = None))
        => (is_allowed = TRUE /\ violations = <<>>)

\* C1 witness: a Strict checker without allowed database has answered for a
\* USE statement on a system table.
C1_Witness ==
    /\ Checked
    /\ Checker.allowed_database = None
    /\ Checker.access_level = STRICT
    /\ ContainsUseStatement(query)
    /\ HasSystemTableReference(query)

\* C2: under Strict with allowed database D, a statement that triggers no
\* special rule is allowed iff every extracted database equals D without
\* regard to case, and each other database is named by a violation;
\* SELECT * FROM shop.orders is allowed and SELECT * FROM other.orders is
\* denied naming other.
C2_StrictIffAllowedDatabase ==
    (Checked /\ Checker.is_enabled /\ Checker.access_level = STRICT)
        => /\ check_special_queries(Checker, query) = <<>>
              => /\ is_allowed <=> \A d \in extract_databases(query) :
                                       lower(d) = lower(Checker.allowed_database)
                 /\ \A d \in extract_databases(query) :
                        lower(d) # lower(Checker.allowed_database)
                            => \E k \in DOMAIN violations :
                                   violations[k] = VIOLATION_DATABASE(d)
           /\ (query = Q_SELECT_SHOP /\ Checker.allowed_database = DB_SHOP) => is_allowed
           /\ (query = Q_SELECT_OTHER /\ Checker.allowed_database = DB_SHOP)
                  => (~is_allowed /\ violations = <<VIOLATION_DATABASE(DB_OTHER)>>)

\* C2 witness: Strict, no special rule triggered, two databases extracted, one
\* of them the allowed one, and the statement denied.
C2_Witness ==
    /\ Checked
    /\ Checker.is_enabled
    /\ Checker.access_level = STRICT
    /\ check_special_queries(Checker, query) = <<>>
    /\ Cardinality(extract_databases(query)) = 2
    /\ DB_SHOP \in extract_databases(query)
    /\ ~is_allowed

\* C3: under every enabled policy a statement that holds USE <name> is
\* denied, and the USE violation is in the list.
C3_UseDenied ==
    (Checked /\ Checker.is_enabled /\ ContainsUseStatement(query))
        => /\ ~is_allowed
           /\ \E k \in DOMAIN violations : violations[k] = VIOLATION_USE

\* C3 witness: Restricted, USE of the allowed database, and the USE violation
\* the only one.
C3_Witness ==
    /\ Checked
    /\ Checker.access_level = RESTRICTED
    /\ Checker.is_enabled
    /\ ContainsUseStatement(query)
    /\ extract_databases(query) = {DB_SHOP}
    /\ violations = <<VIOLATION_USE>>

\* the statement refers to a system database
ReferencesSystemDatabase(s) == extract_databases(s) \cap SYSTEM_DATABASES # {}

\* C4 as stated: with allowed database shop, a statement that refers to a
\* system database and holds no USE is allowed under Restricted and denied
\* under Strict.
C4_Original ==
    (Checked /\ Checker.allowed_database = DB_SHOP
        /\ ReferencesSystemDatabase(query) /\ ~ContainsUseStatement(query))
        => /\ Checker.access_level = RESTRICTED => is_allowed
           /\ Checker.access_level = STRICT => ~is_allowed

\* C4 amended: ... is allowed under Restricted when every database it refers
\* to is shop or a system database, and is denied under Strict.
C4_SystemDatabaseByLevel ==
    (Checked /\ Checker.allowed_database = DB_SHOP
        /\ ReferencesSystemDatabase(query) /\ ~ContainsUseStatement(query))
        => /\ (Checker.access_level = RESTRICTED
                /\ extract_databases(query) \subseteq SYSTEM_DATABASES \cup {DB_SHOP})
                  => (is_allowed /\ violations = <<>>)
           /\ Checker.access_level = STRICT => ~is_allowed

\* C4 witness: Restricted has allowed SELECT * FROM mysql.user.
C4_Witness ==
    /\ Checked
    /\ Checker.allowed_database = DB_SHOP
    /\ Checker.access_level = RESTRICTED
    /\ query = Q_SELECT_MYSQL
    /\ is_allowed

\* C7: check_query answers allowed exactly when it lists no violation.
C7_AllowedIffNoViolation ==
    Checked => (is_allowed <=> violations = <<>>)

\* C7 witness: an enabled checker has denied a statement whose databases
\* are all allowed, on a special rule alone.
C7_Witness ==
    /\ Checked
    /\ Checker.is_enabled
    /\ ~is_allowed
    /\ extract_databases(query) # {}
    /\ \A d \in extract_databases(query) : is_database_allowed(Checker, d)

\* C8 as stated: a statement with no identifier.identifier form and no
\* special statement (USE, SHOW DATABASES, system table) is allowed under
\* every policy.
C8_Original ==
    (Checked /\ ~HasQualifiedIdentifier(query) /\ ~ContainsUseStatement(query)
        /\ ~HasShowDatabases(query) /\ ~HasSystemTableReference(query))
        => is_allowed

\* C8 amended: ... and no SHOW [FULL] TABLES FROM <identifier> ... is allowed
\* under every policy, with no violation.
C8_PlainStatementAllowed ==
    (Checked /\ ~HasQualifiedIdentifier(query) /\ ~ContainsUseStatement(query)
        /\ ~HasShowDatabases(query) /\ ~HasSystemTableReference(query)
        /\ ~HasShowTablesFrom(query))
        => (is_allowed /\ violations = <<>>)

\* C8 witness: Strict has allowed SELECT * FROM crm, a statement that names a
\* table after FROM without a database, and holds the letters of no special
\* statement.
C8_Witness ==
    /\ Checked
    /\ Checker.is_enabled
    /\ Checker.access_level = STRICT
    /\ query = Fragments[1] \o Fragments[6]
    /\ ~HasQualifiedIdentifier(query) /\ ~ContainsUseStatement(query)
    /\ ~HasShowDatabases(query) /\ ~HasSystemTableReference(query)
    /\ ~HasShowTablesFrom(query)
    /\ is_allowed

\* every second character in upper case, the others in lower case
altcase(s) == [i \in 1..Len(s) |-> IF i % 2 = 0 THEN UpperOf[s[i]] ELSE LowerOf[s[i]]]

\* letter-case variants of a statement
CaseVariants(s) == {lower(s), altcase(s)}

\* C9: check_query gives the same flag and the same violation list for the
\* letter-case variants of a statement.
C9_CaseInsensitive ==
    Checked => \A v \in CaseVariants(query) :
                   check_query(Checker, hash_seed, v)
                       = [is_allowed |-> is_allowed, violations |-> violations]

\* C9 witness: a denied statement in mixed case, with a database violation
\* and a special violation.
C9_Witness ==
    /\ Checked
    /\ Checker.is_enabled
    /\ query # lower(query) /\ query # upper(query)
    /\ Len(violations) >= 2
    /\ \E k \in DOMAIN violations : violations[k] = VIOLATION_DATABASE(DB_OTHER)
    /\ \E k \in DOMAIN violations : violations[k] = VIOLATION_USE

\* C10: check_query gives, for a statement and a policy, the same flag and
\* the same violations in the same order in every process (whatever the
\* process's string-hash seed).
C10_Deterministic ==
    Checked => \A seed \in HashSeeds :
                   check_query(Checker, seed, query)
                       = [is_allowed |-> is_allowed, violations |-> violations]

\* a call of a gateway tool is under way or has ended
InTool == op \in {"mysql_query", "mysql_show_databases"}

\* a call of an info tool that asks for the environment's permission
InInfoTool == op \in {"mysql_show_variables", "mysql_show_status"}

\* mysql_show_databases has passed its parameter validation
ShowDatabasesValidated ==
    /\ op = "mysql_show_databases"
    /\ (error = <<>> \/ error[1] # "ParameterValidationError")

\* C5: with allowed database shop, SHOW DATABASES is denied under Strict with
\* the catalog-enumeration violation and allowed without violation under
\* Restricted; mysql_show_databases (its parameters valid) raises the security
\* error with no connection acquired and nothing executed under Strict, and
\* goes on to the connection under Restricted.
C5_ShowDatabasesByLevel ==
    (ShowDatabasesValidated /\ database_checker # <<>>
        /\ Checker.allowed_database = DB_SHOP)
        => /\ Checker.access_level = STRICT
                  => /\ ~is_allowed
                     /\ violations = <<VIOLATION_SHOW_DATABASES>>
                     /\ pc = "raised"
                     /\ error[1] = "SecurityError"
                     /\ connection = "none" /\ ~acquired /\ ~executed
           /\ Checker.access_level = RESTRICTED
                  => /\ is_allowed
                     /\ violations = <<>>
                     /\ (error = <<>> \/ error[1] # "SecurityError")
                     /\ (pc = "raised" => acquired \/ error[1] = "ConnectionError")

\* C5 witness: under Strict the tool has raised the security error.
C5_Witness ==
    /\ ShowDatabasesValidated
    /\ database_checker # <<>>
    /\ Checker.allowed_database = DB_SHOP
    /\ Checker.access_level = STRICT
    /\ pc = "raised"
    /\ error[1] = "SecurityError"

\* the message is the prefix and then the violations in order, "; " between
\* each two
CarriesViolations(message, found) ==
    /\ Len(message) = 2 * Len(found)
    /\ message[1][1] = "database isolation restriction: "
    /\ \A k \in 1..Len(found) : message[2 * k] = found[k]
    /\ \A k \in 1..(Len(found) - 1) : message[2 * k + 1] = <<"; ", <<>>>>

\* C6: in mysql_query and mysql_show_databases, when a checker is configured
\* and denies the statement, the call fails with an error whose message
\* carries the violations in order joined by "; ", and the call has acquired
\* no connection and executed nothing; a statement is executed and a
\* connection held only after the check has allowed the statement.
C6_DenialBeforeConnection ==
    /\ (InTool /\ database_checker # <<>> /\ ~is_allowed)
           => /\ pc = "raised"
              /\ error # <<>>
              /\ error[1] \in {"ValueError", "SecurityError"}
              /\ CarriesViolations(error[2], violations)
              /\ violations # <<>>
              /\ connection = "none" /\ ~acquired /\ ~executed
    /\ (InTool /\ (connection = "held" \/ acquired \/ executed)) => is_allowed

\* C6 witness: mysql_query has failed on a statement with three violations.
C6_Witness ==
    /\ op = "mysql_query"
    /\ database_checker # <<>>
    /\ pc = "raised"
    /\ ~is_allowed
    /\ Len(violations) = 3
    /\ Len(error[2]) = 6


\* the text of an access level
LevelText(level) ==
    CASE level = STRICT -> <<"s", "t", "r", "i", "c", "t">>
      [] level = RESTRICTED -> <<"r", "e", "s", "t", "r", "i", "c", "t", "e", "d">>
      [] level = PERMISSIVE -> <<"p", "e", "r", "m", "i", "s", "s", "i", "v", "e">>

\* the configured access level is one of the three, in any letter case
KnownLevel(text) == \E level \in DatabaseAccessLevel : LevelText(level) = lower(text)

\* C18: create_database_checker reads the access level without regard to
\* letter case, and for every other text returns a Permissive checker, which
\* is not enabled and allows every statement.
C18_LevelFallback ==
    (config # NoConfig /\ database_checker # <<>>)
        => /\ Checker.allowed_database = config.allowed_database
           /\ \A level \in DatabaseAccessLevel :
                  LevelText(level) = lower(config.access_level)
                      => Checker.access_level = level
           /\ ~KnownLevel(config.access_level)
                  => /\ Checker.access_level = PERMISSIVE
                     /\ ~Checker.is_enabled
                     /\ Checked => (is_allowed /\ violations = <<>>)

\* C18 witness: the level STRICT in capitals has given a Strict checker, which
\* has denied a statement.
C18_Witness ==
    /\ config # NoConfig
    /\ config.access_level = <<"S", "T", "R", "I", "C", "T">>
    /\ Checked
    /\ Checker.access_level = STRICT
    /\ ~is_allowed


\* a whitespace character next to a dot: only whitespace lies between it and
\* a dot before or after it
BesideDot(s, i) ==
    /\ s[i] \in Whitespace
    /\ \/ \E j \in {SpanWhile(s, i, Whitespace)} : j <= Len(s) /\ s[j] = "."
       \/ \E j \in {SpanBack(s, i)} : j >= 1 /\ s[j] = "."

RECURSIVE TightDotsFrom(_, _)
\* the text from i on without the whitespace around its dots
TightDotsFrom(s, i) ==
    IF i > Len(s) THEN <<>>
    ELSE (IF BesideDot(s, i) THEN <<>> ELSE <<s[i]>>) \o TightDotsFrom(s, i + 1)

\* the statement written without whitespace around the dots
TightDots(s) == TightDotsFrom(s, 1)

\* C19: under an enabled Strict policy, a statement that refers to a system
\* table with whitespace around the dot gets the same check_query result,
\* the system-table violation included, as the statement written without
\* that whitespace.
C19_SpacedDotSameResult ==
    (Checked /\ Checker.is_enabled /\ Checker.access_level = STRICT
        /\ HasSystemTableReference(TightDots(query)))
        => /\ check_query(Checker, hash_seed, TightDots(query))
                  = [is_allowed |-> is_allowed, violations |-> violations]
           /\ \E k \in DOMAIN violations : violations[k] = VIOLATION_SYSTEM_TABLE

\* identifier.identifier at i, with the whitespace the patterns allow around
\* the dot, on the text as written
QualifiedAt(s, i) == MatchQualified(s, MatchBoundary(s, i))

\* what an enabled policy lets a statement refer to
Permitted(self, db_name) ==
    \/ db_name = lower(self.allowed_database)
    \/ self.access_level = RESTRICTED /\ db_name \in SYSTEM_DATABASES

\* the statement is denied with a violation that names db_name
DeniedFor(db_name) ==
    /\ ~is_allowed
    /\ \E k \in DOMAIN violations : violations[k] = VIOLATION_DATABASE(db_name)

\* C20 as stated: under an enabled policy every identifier.identifier in the
\* text whose first identifier is not permitted denies the statement, with a
\* violation naming that identifier in lower case.
C20_Original ==
    (Checked /\ Checker.is_enabled)
        => \A i \in 1..Len(query) :
               (QualifiedAt(query, i).end # 0
                   /\ ~Permitted(Checker, lower(QualifiedAt(query, i).group1)))
                   => DeniedFor(lower(QualifiedAt(query, i).group1))

RECURSIVE ScannedIdentifiers(_, _)
RECURSIVE ScanFrom(_, _, _)
\* the first identifiers, in lower case, of the identifier.identifier forms a
\* scan from left to right finds from i on: the scan goes on after the end of
\* a form it has found, so that b.c in a.b.c is not a form of its own
ScannedIdentifiers(s, i) ==
    IF i > Len(s) THEN {} ELSE ScanFrom(s, i, QualifiedAt(s, i))

ScanFrom(s, i, m) ==
    IF m.end = 0 THEN ScannedIdentifiers(s, i + 1)
    ELSE {lower(m.group1)} \cup ScannedIdentifiers(s, m.end)

\* C20 amended: under an enabled policy every identifier.identifier that a
\* left-to-right scan of the text finds, going on after the end of each form
\* found, denies the statement when its first identifier is not permitted,
\* with a violation naming that identifier in lower case.
C20_ScannedReferenceDenied ==
    (Checked /\ Checker.is_enabled)
        => \A db_name \in ScannedIdentifiers(query, 1) :
               ~Permitted(Checker, db_name) => DeniedFor(db_name)

\* C20 witness: Restricted has denied a statement for a scanned first
\* identifier written with a capital, which it names in lower case.
C20_Witness ==
    /\ Checked
    /\ Checker.is_enabled
    /\ Checker.access_level = RESTRICTED
    /\ \E i \in 1..Len(query) :
           /\ QualifiedAt(query, i).end # 0
           /\ QualifiedAt(query, i).group1 # lower(QualifiedAt(query, i).group1)
    /\ \E db_name \in ScannedIdentifiers(query, 1) :
           ~Permitted(Checker, db_name) /\ DeniedFor(db_name)


\* the environment refuses the sensitive query types: it is not the
\* development environment, and ALLOW_SENSITIVE_INFO is not true (in any
\* letter case)
Refusing ==
    /\ env_type = PRODUCTION
    /\ (allow_sensitive_info = None
           \/ lower(allow_sensitive_info) # <<"t", "r", "u", "e">>)

\* C16: in a production environment where ALLOW_SENSITIVE_INFO is not true,
\* check_environment_permission refuses variables, status and processlist,
\* and mysql_show_variables / mysql_show_status raise the security error
\* with no parameter validation, no connection and no execution; in a
\* development environment nothing is refused, and no other query type is
\* refused in any environment.
C16_ProductionRefusesSensitive ==
    /\ (op = "check_environment_permission" /\ pc = "returned")
           => (permitted <=> ~(Refusing /\ query[1] \in {"variables", "status", "processlist"}))
    /\ (InInfoTool /\ Refusing)
           => /\ ~permitted
              /\ pc = "raised"
              /\ error # <<>>
              /\ error[1] = "SecurityError"
              /\ connection = "none" /\ ~acquired /\ ~executed
    /\ (InInfoTool /\ ~Refusing)
           => /\ permitted
              /\ (error = <<>> \/ error[1] # "SecurityError")

\* C16 witness: production with ALLOW_SENSITIVE_INFO set to 1, and
\* mysql_show_status has raised the security error.
C16_Witness ==
    /\ env_type = PRODUCTION
    /\ allow_sensitive_info = <<"1">>
    /\ op = "mysql_show_status"
    /\ pc = "raised"
    /\ error[1] = "SecurityError"
    /\ ~acquired

\* a call of one of the tools
InAnyTool == InTool \/ InInfoTool

\* C17: a tool call that has acquired a connection has left the async with
\* by one of its exits (normal return, the early return of
\* mysql_show_databases, an exception of the execution or of the processing
\* of the rows) and holds no connection when it ends; a connection is held
\* only inside the async with.
C17_ConnectionReleased ==
    /\ (InAnyTool /\ pc \in {"returned", "raised"})
           => /\ connection = "none"
              /\ acquired => exit_path \in {"return", "early_return", "exception"}
              /\ exit_path = "exception" <=> (acquired /\ pc = "raised")
    /\ connection = "held" => (InAnyTool /\ pc \in {"execute", "process", "exit"})
    /\ pc = "idle" => connection = "none"

\* C17 witness: mysql_show_databases has ended by its early return after
\* holding a connection.
C17_Witness ==
    /\ op = "mysql_show_databases"
    /\ pc = "returned"
    /\ acquired /\ executed
    /\ exit_path = "early_return"
    /\ connection = "none"

\* filter_sensitive_info has returned
Filtered == op = "filter_sensitive_info" /\ pc = "returned"

\* the rows of a list of references, as the heap holds them now
RowsOf(refs) == [i \in 1..Len(refs) |-> heap[refs[i]]]

\* the patterns the call works with
PatternsOfCall ==
    IF filter_patterns = <<>> \/ filter_patterns = << <<>> >>
    THEN SENSITIVE_VARIABLE_PATTERNS
    ELSE filter_patterns[1]

\* the row has one of the recognized name fields
HasNameField(row) == keys(row) \cap Range(VARIABLE_NAME_FIELDS) # {}

\* the value of the first field of the priority list the row has
NameOf(row) ==
    getitem(row, VARIABLE_NAME_FIELDS[
            CHOOSE i \in 1..Len(VARIABLE_NAME_FIELDS) :
                /\ VARIABLE_NAME_FIELDS[i] \in keys(row)
                /\ \A j \in 1..(i - 1) : VARIABLE_NAME_FIELDS[j] \notin keys(row)])

\* the text contains the pattern, letter case apart
ContainsText(text, pattern) ==
    \E k \in 0..(Len(text) - Len(pattern)) :
        upper(SubSeq(text, k + 1, k + Len(pattern))) = upper(pattern)

\* the name of the row matches one of the patterns of the call
MatchesSensitive(row) ==
    \E j \in 1..Len(PatternsOfCall) :
        /\ ~Malformed(PatternsOfCall[j])
        /\ ContainsText(str(NameOf(row)), PatternsOfCall[j])

\* out is row with every value field it has set to the sentinel, and every
\* other field as it was
MaskedFrom(out, row) ==
    /\ keys(out) = keys(row)
    /\ \A f \in keys(row) :
           getitem(out, f) = IF f \in Range(VALUE_FIELDS) THEN HIDDEN ELSE getitem(row, f)

\* C11: a returned row whose name field (the first of the priority list the
\* row has) matches a pattern has every value field it has set to the
\* sentinel and every other field unchanged; a row whose name matches no
\* pattern is returned as it was.
C11_SensitiveRowsMasked ==
    Filtered =>
        \A i \in 1..Len(original) :
            HasNameField(original[i]) =>
                IF MatchesSensitive(original[i])
                THEN MaskedFrom(heap[filtered_results[i]], original[i])
                ELSE heap[filtered_results[i]] = original[i]

\* C11 witness: with the default patterns, ssl_ca came back masked and
\* max_connections as it was.
C11_Witness ==
    /\ Filtered
    /\ filter_patterns = <<>>
    /\ original = << dict(<<"Variable_name", "Value">>,
                          [Variable_name |-> <<"s", "s", "l", "_", "c", "a">>, Value |-> <<"p", "e", "m">>]),
                     dict(<<"Variable_name", "Value">>,
                          [Variable_name |-> <<"m", "a", "x", "_", "c", "o", "n", "n", "e", "c", "t", "i", "o", "n", "s">>, Value |-> <<"1", "5", "1">>]) >>
    /\ RowsOf(filtered_results)
           = << dict(<<"Variable_name", "Value">>,
                     [Variable_name |-> <<"s", "s", "l", "_", "c", "a">>, Value |-> HIDDEN]),
                dict(<<"Variable_name", "Value">>,
                     [Variable_name |-> <<"m", "a", "x", "_", "c", "o", "n", "n", "e", "c", "t", "i", "o", "n", "s">>, Value |-> <<"1", "5", "1">>]) >>

\* C12: filtering the rows a call returned again, with the same patterns,
\* returns rows equal to them.
C12_Idempotent ==
    (op = "filter_sensitive_info" /\ passes = 2)
        => /\ pc = "returned"
           /\ RowsOf(filtered_results) = original
           /\ RowsOf(filtered_results) = RowsOf(results)

\* C12 witness: the second call has returned rows of which one is masked.
C12_Witness ==
    /\ Filtered
    /\ passes = 2
    /\ \E i \in 1..Len(filtered_results) :
           \E f \in keys(heap[filtered_results[i]]) :
               getitem(heap[filtered_results[i]], f) = HIDDEN

\* C13: a row with none of the recognized name fields is returned equal to
\* the input row in every field.
C13_NoNameFieldUnchanged ==
    Filtered =>
        \A i \in 1..Len(original) :
            ~HasNameField(original[i]) => heap[filtered_results[i]] = original[i]

\* C13 witness: a row without a name field, with a field Value whose text is
\* a default pattern, came back under the default patterns.
C13_Witness ==
    /\ Filtered
    /\ passes = 1
    /\ filter_patterns = <<>>
    /\ Len(original) = 2
    /\ original[2] = dict(<<"Value", "host">>, [Value |-> <<"k", "e", "y">>, host |-> <<"d", "b">>])
    /\ heap[filtered_results[2]] = original[2]

\* C14: a call leaves every input row with the fields and values it had,
\* whether it returns or raises; the rows it returns are new dicts, one per
\* input row and in the order of the input.
C14_InputNotMutated ==
    /\ (op = "filter_sensitive_info" /\ pc \in {"returned", "raised"})
           => RowsOf(results) = original
    /\ Filtered
           => /\ Len(filtered_results) = Len(results)
              /\ \A i \in 1..Len(filtered_results) :
                     /\ filtered_results[i] \notin Range(results)
                     /\ \A j \in 1..Len(filtered_results) :
                            filtered_results[i] = filtered_results[j] => i = j
                     /\ keys(heap[filtered_results[i]]) = keys(original[i])
                     /\ \A f \in keys(original[i]) \ Range(VALUE_FIELDS) :
                            getitem(heap[filtered_results[i]], f) = getitem(original[i], f)

\* C14 witness: a returned row is masked, and the input row it was made from
\* still has its value.
C14_Witness ==
    /\ Filtered
    /\ passes = 1
    /\ \E i \in 1..Len(results) :
           /\ "Value" \in keys(original[i])
           /\ getitem(heap[filtered_results[i]], "Value") = HIDDEN
           /\ getitem(heap[results[i]], "Value") = getitem(original[i], "Value")
           /\ getitem(original[i], "Value") # HIDDEN

\* C15: a call with a malformed pattern still returns, with one row per
\* input row.
C15_MalformedPatternTolerated ==
    (op = "filter_sensitive_info" /\ pc \in {"returned", "raised"})
        => /\ pc = "returned"
           /\ Len(filtered_results) = Len(results)

\* how many entries of the violation list are the system-table violation
SystemTableViolations ==
    Cardinality({i \in 1..Len(violations) : violations[i] = VIOLATION_SYSTEM_TABLE})

\* the system table patterns that match the normalized text of the statement
MatchingSystemPatterns(s) ==
    {k \in DOMAIN system_table_patterns :
        SearchSystemTable(system_table_patterns[k], strip(upper(s)))}

\* C21: the violation list of check_query holds the system-table violation
\* at most once, however many system table patterns the statement matches,
\* and only under Strict.
C21_SystemTableViolationOnce ==
    Checked =>
        /\ SystemTableViolations <= 1
        /\ SystemTableViolations = 1 => Checker.access_level = STRICT

\* C21 witness: under Strict a statement that matches two of the system
\* table patterns was checked, and its list holds the violation once.
C21_Witness ==
    /\ Checked
    /\ Checker.access_level = STRICT
    /\ Checker.allowed_database = DB_SHOP
    /\ Cardinality(MatchingSystemPatterns(query)) >= 2
    /\ SystemTableViolations = 1

\* the candidate name fields of a row
Candidates(row) == keys(row) \cap Range(VARIABLE_NAME_FIELDS)

\* the candidate of the row that comes first in VARIABLE_NAME_FIELDS
FirstCandidate(row) ==
    VARIABLE_NAME_FIELDS[
        CHOOSE i \in 1..Len(VARIABLE_NAME_FIELDS) :
            /\ VARIABLE_NAME_FIELDS[i] \in keys(row)
            /\ \A j \in 1..(i - 1) : VARIABLE_NAME_FIELDS[j] \notin keys(row)]

\* the value of a later candidate of the row matches a pattern of the call
LaterCandidateSensitive(row) ==
    \E f \in Candidates(row) \ {FirstCandidate(row)} :
        /\ \E j \in 1..Len(PatternsOfCall) :
               /\ ~Malformed(PatternsOfCall[j])
               /\ ContainsText(str(getitem(row, f)), PatternsOfCall[j])

\* two rows hold the same fields with the same values
SameFields(row, other) ==
    /\ keys(row) = keys(other)
    /\ \A f \in keys(row) : getitem(row, f) = getitem(other, f)

\* C22: a row with more than one candidate name field is masked exactly when
\* the value of the candidate that comes first in VARIABLE_NAME_FIELDS
\* matches a pattern, whatever the values of its later candidates; and two
\* rows that hold the same fields in different orders come back with the
\* same fields.
C22_FirstCandidateDecides ==
    Filtered =>
        /\ \A i \in 1..Len(original) :
               Cardinality(Candidates(original[i])) > 1 =>
                   IF MatchesSensitive(original[i])
                   THEN MaskedFrom(heap[filtered_results[i]], original[i])
                   ELSE heap[filtered_results[i]] = original[i]
        /\ \A i, j \in 1..Len(original) :
               SameFields(original[i], original[j])
                   => SameFields(heap[filtered_results[i]], heap[filtered_results[j]])

\* C22 witness: under the default patterns a row came back as it was whose
\* fields are, in this order, name (ssl_ca), Variable_name (max) and Value.
C22_Witness ==
    /\ Filtered
    /\ passes = 1
    /\ filter_patterns = <<>>
    /\ \E i \in 1..Len(original) :
           /\ original[i][1][1] = "name"
           /\ original[i][2][1] = "Variable_name"
           /\ LaterCandidateSensitive(original[i])
           /\ ~MatchesSensitive(original[i])
           /\ heap[filtered_results[i]] = original[i]

\* the key is in the state with a value that is not empty
NonEmpty(key) ==
    /\ key \in DOMAIN state
    /\ state[key] # <<>>
    /\ state[key] # None

\* C23: response_generation is the next node only right after detail_search
\* with product_params not empty or right after mumble_search with
\* product_info not empty; END is reached only from response_generation;
\* and after clarification the next node is intent_detection when
\* clarification_answer is not empty, and clarification again when it is.
C23_ResponseOnlyAfterSearch ==
    /\ node = "response_generation"
           => \/ (previous = "detail_search" /\ NonEmpty("product_params"))
              \/ (previous = "mumble_search" /\ NonEmpty("product_info"))
    /\ node = END => previous = "response_generation"
    /\ previous \in {"intent_detection", "clarification", "query_knowledgebase"}
           => node \notin {"response_generation", END}
    /\ previous = "clarification"
           => node = IF NonEmpty("clarification_answer")
                     THEN "intent_detection" ELSE "clarification"

\* C23 witness: response_generation is next, right after mumble_search, in a
\* run that went through clarification and back to intent_detection.
C23_Witness ==
    /\ node = "response_generation"
    /\ previous = "mumble_search"
    /\ NonEmpty("product_info")
    /\ NonEmpty("clarification_answer")
    /\ state["clarification_count"] >= 1

===========================================================================
